---- MODULE Spec2Model ----
(***************************************************************************)
(* A model of fspopulate (src/fspopulate.c): the population of a two-level *)
(* directory tree ROOT/dir<di>/file<bi> with files whose sizes sum to a    *)
(* configured total.                                                       *)
(*                                                                         *)
(* The file system is the tree under the root: whether the root exists,    *)
(* the set of existing subdirectory indices and, for every existing file   *)
(* (a path <<di, bi>>), its content.  A content is a sequence of chunks    *)
(* <<kind, len>>: a "buf" chunk of length r holds the bytes                *)
(* fsp_buf[0 .. r-1] (what one write call of populate_file appends), an    *)
(* "ext" chunk holds len bytes that some other program wrote.  The bytes   *)
(* of fsp_buf are identified with their offsets (the buffer is filled from *)
(* rand() and is not periodic), so two contents made of "buf" chunks hold  *)
(* the same bytes exactly when they are the same chunk sequence.           *)
(*                                                                         *)
(* One behaviour is a session against one root with one configuration:     *)
(* invocations of the program (runs) one after the other, and between two  *)
(* runs other programs may remove, truncate or extend files.  Every system *)
(* call of a run is one step, and may fail where the real call may fail.   *)
(*                                                                         *)
(* Sizes are counted in units of fsp.unit bytes.  The unit is 1 byte       *)
(* everywhere except in the 1 TiB example of PlanSpec, whose sizes (all    *)
(* multiples of 1 MiB) exceed the integers TLC computes with and are       *)
(* counted in MiB.                                                         *)
(***************************************************************************)
EXTENDS Integers, Sequences, FiniteSets, TLC

\* ---------------------------------------------------------------- bounds
\* the largest nbulk of a configuration
MaxBulk == 1
\* the largest nsubdirs of a configuration
MaxDirs == 2
\* the runs of a session
MaxRuns == 2
\* what the environment does in a session: the changes other programs make
\* to the tree between runs, and the short writes
MaxEnv == 1

\* ------------------------------------------------------ program constants
MiB == 1024 * 1024

\* sizeof (fsp_buf), in bytes
BufBytes == 10 * 1024 * 1024

\* the size of a non-bulk file, in bytes
StdBytes == 10 * 1024 * 1024

MIN(a, b) == IF a < b THEN a ELSE b

VARIABLES
    fsp,          \* the configuration (fspopulate_t), fixed for the session
    root,         \* the root directory exists
    dirs,         \* indices of the existing subdirectories dir<di>
    files,        \* path <<di, bi>> of every existing file |-> its content
    pc,           \* position of the current run; "idle" between runs
    totwritten, di, bi, expectedsz, err,       \* locals of fspopulate
    fd,           \* the file of the open descriptor fd, NoFd when none is open
    nbytes, nwritten,                          \* locals of populate_file
    errno,        \* errno after the last mkdirp that returned -1
    rv,           \* what fspopulate returned ("none": it did not return)
    exited,       \* how the last process ended ("none": none ended yet)
    \* history variables, read by the properties only
    run,          \* number of runs started
    tampers,      \* number of changes made by other programs
    shorts,       \* number of short writes
    origin,       \* where the tree comes from, see Return
    basis,        \* the value of origin when the current run started
    start,        \* the tree when the current run started
    plan,         \* expected sizes computed by this run, run-length encoded
    wcalls,       \* write calls issued by this run, per file opened
    fin,          \* size of each processed file when its processing ended
    ncalls,       \* mkdirp, open, fstat and write calls made by this run
    failedat,     \* "none", or the call that made this run fail
    trace,        \* the mkdirp (of a subdirectory) and open calls of this run
    ref           \* <<tree>> left by the first successful run on an empty root

locals == <<totwritten, di, bi, fd, expectedsz, err, nbytes, nwritten, errno>>
fsys == <<root, dirs, files>>
vars == <<fsp, root, dirs, files, pc, totwritten, di, bi, fd, expectedsz,
          err, nbytes, nwritten, errno, rv, exited, run, tampers, shorts,
          origin, basis, start, plan, wcalls, fin, ncalls, failedat, trace,
          ref>>

NoFd == <<>>

\* ------------------------------------------------------------- contents
RECURSIVE Size(_)
Size(c) == IF c = <<>> THEN 0 ELSE Head(c)[2] + Size(Tail(c))

\* the first n bytes of content c (n <= Size(c))
RECURSIVE Take(_, _)
Take(c, n) ==
    IF n <= 0 \/ c = <<>> THEN <<>>
    ELSE IF Head(c)[2] <= n
         THEN <<Head(c)>> \o Take(Tail(c), n - Head(c)[2])
         ELSE <<<<Head(c)[1], n>>>>

\* content c followed by k bytes of another program
Extend(c, k) ==
    IF c # <<>> /\ c[Len(c)][1] = "ext"
    THEN [c EXCEPT ![Len(c)] = <<"ext", c[Len(c)][2] + k>>]
    ELSE Append(c, <<"ext", k>>)

\* c is a prefix of d, byte for byte
IsPrefix(c, d) == Size(c) <= Size(d) /\ Take(d, Size(c)) = c

Tree == [root |-> root, dirs |-> dirs, files |-> files]
EmptyTree == [root |-> FALSE, dirs |-> {}, files |-> <<>>]

RECURSIVE SumSizes(_, _)
SumSizes(fs, ps) ==
    IF ps = {} THEN 0
    ELSE LET p == CHOOSE q \in ps : TRUE
         IN  Size(fs[p]) + SumSizes(fs, ps \ {p})

TotalSize(fs) == SumSizes(fs, DOMAIN fs)

\* the tree fs with file p holding content c (created when absent)
Put(fs, p, c) == [q \in (DOMAIN fs) \cup {p} |-> IF q = p THEN c ELSE fs[q]]

\* the tree fs without the files ps
Without(fs, ps) == [q \in (DOMAIN fs) \ ps |-> fs[q]]

\* ------------------------------------------------------- configurations
\* total sizes and bulk sizes tried, in bytes
TotSizes == {0, 3, StdBytes + 3}
BulkSizes == {0, 3, StdBytes + 2}

Configs ==
    [totsize : TotSizes, nbulk : 0 .. MaxBulk, bulksize : BulkSizes,
     nsubdirs : 1 .. MaxDirs, dryrun : BOOLEAN, unit : {1}]

\* the configuration main builds for a SIZE argument of totsz units
MainConfig(totsz, unit) ==
    [totsize |-> totsz, nbulk |-> 768, bulksize |-> totsz \div 1024,
     nsubdirs |-> 256, dryrun |-> FALSE, unit |-> unit]

\* ------------------------------------------------------------- the plan
\* a request that stops one unit short of the end of the buffer
BufLenShort(c) == (BufBytes \div c.unit) - 1

\* sizeof (fsp_buf), line 230
BufLen(c) == BufBytes \div c.unit

StdSize(c) == StdBytes \div c.unit

\* one bulk file too many
NominalOffByOne(c, b) == IF b <= c.nbulk THEN c.bulksize ELSE StdSize(c)

\* the size of file b before clipping
Nominal(c, b) == IF b < c.nbulk THEN c.bulksize ELSE StdSize(c)

\* an expected size that is not clipped to what is left of the total
ExpectedSzUnclipped(c, b, tw) == Nominal(c, b)

\* expectedsz of file b when tw units are planned already
ExpectedSz(c, b, tw) == MIN(Nominal(c, b), c.totsize - tw)

\* a running total of the bytes that were written
AdvanceWritten(tw, e) == tw + nwritten

\* totwritten after a file of expected size e
Advance(tw, e) == tw + e

\* a directory index that never moves
NextDirStuck(c, d) == d

\* di after a file was placed in directory d
NextDir(c, d) == (d + 1) % c.nsubdirs

\* a run-length encoded sequence of sizes with size e appended
Record(pl, e) ==
    IF pl # <<>> /\ pl[Len(pl)][1] = e
    THEN [pl EXCEPT ![Len(pl)] = <<e, pl[Len(pl)][2] + 1>>]
    ELSE Append(pl, <<e, 1>>)

\* the (i+1)-th size of a run-length encoded sequence (i counts from 0)
RECURSIVE At(_, _)
At(pl, i) == IF i < Head(pl)[2] THEN Head(pl)[1] ELSE At(Tail(pl), i - Head(pl)[2])

RECURSIVE Count(_)
Count(pl) == IF pl = <<>> THEN 0 ELSE Head(pl)[2] + Count(Tail(pl))

RECURSIVE Sum(_)
Sum(pl) == IF pl = <<>> THEN 0 ELSE (Head(pl)[1] * Head(pl)[2]) + Sum(Tail(pl))

\* the path of file b under configuration c
PathOf(c, b) == <<b % c.nsubdirs, b>>

\* ----------------------------------------------------------------- Init
\* no process ran yet, and the root does not exist
Blank ==
    /\ root = FALSE /\ dirs = {} /\ files = <<>>
    /\ totwritten = 0 /\ di = 0 /\ bi = 0 /\ fd = NoFd /\ expectedsz = 0
    /\ err = 0 /\ nbytes = 0 /\ nwritten = 0 /\ errno = "none"
    /\ rv = "none" /\ exited = "none"
    /\ run = 0 /\ tampers = 0 /\ shorts = 0
    /\ origin = "other" /\ basis = "other" /\ start = EmptyTree
    /\ plan = <<>> /\ wcalls = <<>>
    /\ fin = <<>> /\ ncalls = 0 /\ failedat = "none" /\ trace = <<>>
    /\ ref = <<>>

Init == fsp \in Configs /\ pc = "idle" /\ Blank

\* ------------------------------------------------------------ the runs
\* main calls fspopulate (lines 97-98): a new process, a new run
StartRun ==
    /\ pc = "idle" /\ run < MaxRuns
    /\ pc' = "entry"
    /\ totwritten' = 0 /\ di' = 0 /\ bi' = 0 /\ fd' = NoFd
    /\ expectedsz' = 0 /\ err' = 0 /\ nbytes' = 0 /\ nwritten' = 0
    /\ errno' = "none" /\ rv' = "none" /\ exited' = "none"
    /\ run' = run + 1 /\ start' = Tree /\ basis' = origin
    /\ plan' = <<>> /\ wcalls' = <<>> /\ fin' = <<>> /\ ncalls' = 0
    /\ failedat' = "none" /\ trace' = <<>>
    /\ UNCHANGED <<fsp, fsys, tampers, shorts, origin, ref>>

\* what main makes of fspopulate's return value (line 99)
ExitCode(v) == IF v = "0" THEN "EXIT_SUCCESS" ELSE "EXIT_FAILURE"

\* every file this run processed ended with exactly its expected size
Exact == \A i \in 1 .. Len(fin) : fin[i] = At(plan, i - 1)

\* fspopulate returns v to main, which exits.  The tree is then the tree of
\* a run that completed ("exact" when every file has its expected size,
\* "success" when some file is larger), or some "other" tree
Return(v) ==
    /\ pc' = "idle" /\ rv' = v /\ exited' = ExitCode(v)
    /\ origin' = IF v # "0" THEN "other"
                 ELSE IF Exact THEN "exact" ELSE "success"
    /\ ref' = IF v = "0" /\ start = EmptyTree /\ ref = <<>>
              THEN <<Tree>> ELSE ref

Running == UNCHANGED <<rv, exited, origin, ref>>

\* a dry-run flag that is not looked at
IsDryRunNever(c) == FALSE

\* the condition of line 154
IsDryRun(c) == c.dryrun

\* lines 154-156
DryRun ==
    /\ pc = "entry" /\ IsDryRun(fsp)
    /\ Return("0")
    /\ UNCHANGED <<fsp, fsys, locals, run, tampers, shorts, basis, start,
                   plan, wcalls, fin, ncalls, failedat, trace>>

\* what mkdirp may return for a directory that exists or not: 0 when it
\* made the directory, -1 and errno otherwise
MkdirpResults(exists) ==
    IF exists
    THEN {[rc |-> -1, errno |-> "EEXIST"], [rc |-> -1, errno |-> "EACCES"]}
    ELSE {[rc |-> 0, errno |-> "none"], [rc |-> -1, errno |-> "EACCES"]}

\* a test that takes a directory that exists for a failure
MkdirpFailedAny(rc, e) == rc # 0

\* the conditions of lines 158 and 174
MkdirpFailed(rc, e) == rc # 0 /\ e # "EEXIST"

\* lines 158-165: mkdirp of the root, then the counters are set
MkRoot ==
    /\ pc = "entry" /\ ~IsDryRun(fsp)
    /\ ncalls' = ncalls + 1
    /\ \E res \in MkdirpResults(root) :
          /\ root' = (root \/ res.rc = 0)
          /\ errno' = IF res.rc = 0 THEN errno ELSE res.errno
          /\ IF MkdirpFailed(res.rc, res.errno)
             THEN failedat' = "mkdirp" /\ Return("-1")
             ELSE pc' = "loop" /\ Running /\ UNCHANGED failedat
    /\ totwritten' = 0 /\ di' = 0 /\ bi' = 0
    /\ UNCHANGED <<fsp, dirs, files, fd, expectedsz, err, nbytes, nwritten,
                   run, tampers, shorts, basis, start, plan, wcalls, fin,
                   trace>>

\* a loop that goes on when the total is reached
MoreToWriteOrEqual(c, tw) == tw <= c.totsize

\* the loop condition of line 166
MoreToWrite(c, tw) == tw < c.totsize

\* a mkdirp in every round of the loop
NeedsMkdirAlways(c, b) == TRUE

\* a mkdirp for the bulk files only
NeedsMkdirBulk(c, b) == b < c.nbulk

\* the condition of line 167
NeedsMkdir(c, b) == b < c.nsubdirs

\* lines 166-167 and 214: the loop test
LoopTest ==
    /\ pc = "loop"
    /\ IF MoreToWrite(fsp, totwritten)
       THEN /\ pc' = IF NeedsMkdir(fsp, bi) THEN "mkdir" ELSE "open"
            /\ Running
       ELSE Return("0")
    /\ UNCHANGED <<fsp, fsys, locals, run, tampers, shorts, basis, start,
                   plan, wcalls, fin, ncalls, failedat, trace>>

\* lines 172-178: mkdirp of ROOT/dir<di>, which makes the root when missing
MkSubdir ==
    /\ pc = "mkdir"
    /\ ncalls' = ncalls + 1
    /\ trace' = Append(trace, <<"mkdirp", bi, di>>)
    /\ \E res \in MkdirpResults(di \in dirs) :
          /\ dirs' = IF res.rc = 0 THEN dirs \cup {di} ELSE dirs
          /\ root' = (root \/ res.rc = 0)
          /\ errno' = IF res.rc = 0 THEN errno ELSE res.errno
          /\ IF MkdirpFailed(res.rc, res.errno)
             THEN failedat' = "mkdirp" /\ Return("-1")
             ELSE pc' = "open" /\ Running /\ UNCHANGED failedat
    /\ UNCHANGED <<fsp, files, totwritten, di, bi, fd, expectedsz, err,
                   nbytes, nwritten, run, tampers, shorts, basis, start,
                   plan, wcalls, fin>>

\* the file named by the path "dir<d>/file<b>" of lines 180-181
Pathname(d, b) == <<d, b>>

\* the files after an open that truncates (O_TRUNC)
OpenedTrunc(fs, p) == Put(fs, p, <<>>)

\* the files after open(p, O_APPEND | O_WRONLY | O_CREAT) succeeded (line
\* 183): p is created empty when absent, and kept as it is otherwise
Opened(fs, p) == IF p \in DOMAIN fs THEN fs ELSE Put(fs, p, <<>>)

\* lines 180-187: the path, the next directory index, open with O_CREAT
Open ==
    /\ pc = "open"
    /\ ncalls' = ncalls + 1
    /\ trace' = Append(trace, <<"open", bi, di>>)
    /\ di' = NextDir(fsp, di)
    /\ \/ /\ root /\ Pathname(di, bi)[1] \in dirs   \* its directory exists
          /\ files' = Opened(files, Pathname(di, bi))
          /\ fd' = Pathname(di, bi)
          /\ wcalls' = Append(wcalls, 0)
          /\ pc' = "fstat" /\ Running /\ UNCHANGED failedat
       \/ /\ UNCHANGED <<files, fd, wcalls>>        \* fd < 0
          /\ failedat' = "open" /\ Return("-1")
    /\ UNCHANGED <<fsp, root, dirs, totwritten, bi, expectedsz, err, nbytes,
                   nwritten, errno, run, tampers, shorts, basis, start, plan,
                   fin>>

\* a close that leaves the descriptor open
ClosedNot(f) == f

\* the open descriptor after close(fd), lines 191 and 199: none
Closed(f) == NoFd

\* a shortfall that ignores the size found on disk
ShortfallOfAll(e, sz) == e

\* the second argument of the call of line 198
Shortfall(e, sz) == e - sz

\* lines 189-198: fstat, the expected size, the call of populate_file
Fstat ==
    /\ pc = "fstat"
    /\ ncalls' = ncalls + 1
    /\ \/ /\ expectedsz' = ExpectedSz(fsp, bi, totwritten)
          /\ nbytes' = Shortfall(expectedsz', Size(files[fd]))
          /\ nwritten' = 0
          /\ plan' = Record(plan, expectedsz')
          /\ pc' = "write" /\ Running /\ UNCHANGED <<fd, failedat>>
       \/ /\ fd' = Closed(fd)          \* fstat fails: close and return
          /\ UNCHANGED <<expectedsz, nbytes, nwritten, plan>>
          /\ failedat' = "fstat" /\ Return("-1")
    /\ UNCHANGED <<fsp, fsys, totwritten, di, bi, err, errno, run, tampers,
                   shorts, basis, start, wcalls, fin, trace>>

\* a request that forgets what is written already
NToWriteWhole(c, n, w) == MIN(n, BufLen(c))

\* line 230
NToWrite(c, n, w) == MIN(n - w, BufLen(c))

\* results of a write call that are positive and less than the request
ShortResults(n) == {r \in {1, n - 1} : 1 <= r /\ r < n}

\* the file after a write call that returned r: O_APPEND, from fsp_buf[0]
Written(c, r) == Append(c, <<"buf", r>>)

Counted(w) == [w EXCEPT ![Len(w)] = w[Len(w)] + 1]

\* lines 229-241: one round of the loop of populate_file
Write ==
    /\ pc = "write"
    /\ \/ /\ ~(nwritten < nbytes)      \* line 241
          /\ err' = 0 /\ pc' = "close" /\ Running
          /\ UNCHANGED <<files, fd, nwritten, shorts, wcalls, ncalls, failedat>>
       \/ /\ nwritten < nbytes         \* the whole request is written
          /\ files' = [files EXCEPT ![fd] =
                         Written(@, NToWrite(fsp, nbytes, nwritten))]
          /\ nwritten' = nwritten + NToWrite(fsp, nbytes, nwritten)
          /\ wcalls' = Counted(wcalls) /\ ncalls' = ncalls + 1
          /\ pc' = "write" /\ Running
          /\ UNCHANGED <<fd, err, shorts, failedat>>
       \/ /\ nwritten < nbytes         \* a short write
          /\ shorts + tampers < MaxEnv
          /\ \E r \in ShortResults(NToWrite(fsp, nbytes, nwritten)) :
                /\ files' = [files EXCEPT ![fd] = Written(@, r)]
                /\ nwritten' = nwritten + r
          /\ shorts' = shorts + 1
          /\ wcalls' = Counted(wcalls) /\ ncalls' = ncalls + 1
          /\ pc' = "write" /\ Running
          /\ UNCHANGED <<fd, err, failedat>>
       \/ /\ nwritten < nbytes         \* result == -1 (lines 233-236)
          /\ err' = -1 /\ failedat' = "write"
          /\ wcalls' = Counted(wcalls) /\ ncalls' = ncalls + 1
          /\ pc' = "close" /\ Running
          /\ UNCHANGED <<files, fd, nwritten, shorts>>
       \/ /\ nwritten < nbytes         \* result == 0: the assertion of line
          /\ failedat' = "assert"      \* 232 fails and the process is killed
          /\ wcalls' = Counted(wcalls) /\ ncalls' = ncalls + 1
          /\ pc' = "idle" /\ exited' = "SIGABRT" /\ fd' = NoFd
          /\ origin' = "other"
          /\ UNCHANGED <<files, err, nwritten, shorts, rv, ref>>
    /\ UNCHANGED <<fsp, root, dirs, totwritten, di, bi, expectedsz, nbytes,
                   errno, run, tampers, basis, start, plan, fin, trace>>

\* a test that misses the -1 of populate_file
FailedPositive(e) == e > 0

\* the condition of line 200
Failed(e) == e # 0

\* lines 199-211: close, the test of err, the counters
Close ==
    /\ pc = "close"
    /\ fd' = Closed(fd)
    /\ IF Failed(err)
       THEN /\ Return("-1")
            /\ UNCHANGED <<totwritten, bi, fin>>
       ELSE /\ totwritten' = Advance(totwritten, expectedsz)
            /\ bi' = bi + 1
            /\ fin' = Append(fin, Size(files[fd]))
            /\ pc' = "loop" /\ Running
    /\ UNCHANGED <<fsp, fsys, di, expectedsz, err, nbytes, nwritten, errno,
                   run, tampers, shorts, basis, start, plan, wcalls, ncalls,
                   failedat, trace>>

\* ----------------------------------------------- other programs, between runs
\* the size of a file that is larger than every file of every plan, in bytes
BigSize == (2 * StdBytes) + 4

\* the files other programs change: the first two files of the plan
Victims == {PathOf(fsp, 0), PathOf(fsp, 1)}

\* the state of a process that is gone, and of its history
Gone ==
    /\ totwritten' = 0 /\ di' = 0 /\ bi' = 0 /\ fd' = NoFd
    /\ expectedsz' = 0 /\ err' = 0 /\ nbytes' = 0 /\ nwritten' = 0
    /\ errno' = "none" /\ rv' = "none" /\ exited' = "none"
    /\ basis' = "other" /\ start' = EmptyTree
    /\ plan' = <<>> /\ wcalls' = <<>> /\ fin' = <<>> /\ ncalls' = 0
    /\ failedat' = "none" /\ trace' = <<>>

Tamper ==
    /\ pc = "idle" /\ shorts + tampers < MaxEnv
    /\ tampers' = tampers + 1
    /\ Gone
    /\ UNCHANGED <<fsp, pc, run, shorts, ref>>

\* a completed tree from which files were removed or truncated is "damaged"
Damaged == IF origin \in {"exact", "damaged"} THEN "damaged" ELSE "other"

\* a file is removed
EnvRemove ==
    /\ Tamper
    /\ \E p \in Victims \cap DOMAIN files : files' = Without(files, {p})
    /\ origin' = Damaged
    /\ UNCHANGED <<root, dirs>>

\* a file loses its last byte
EnvTruncate ==
    /\ Tamper
    /\ \E p \in Victims \cap DOMAIN files :
          /\ Size(files[p]) > 0
          /\ files' = [files EXCEPT ![p] = Take(@, Size(@) - 1)]
    /\ origin' = Damaged
    /\ UNCHANGED <<root, dirs>>

\* a file grows by one byte
EnvExtend ==
    /\ Tamper
    /\ \E p \in Victims \cap DOMAIN files :
          files' = [files EXCEPT ![p] = Extend(@, 1)]
    /\ origin' = "other"
    /\ UNCHANGED <<root, dirs>>

\* a large file is created, with its directory
EnvCreate ==
    /\ Tamper
    /\ \E p \in Victims \ DOMAIN files :
          /\ files' = Put(files, p, Extend(<<>>, BigSize))
          /\ dirs' = dirs \cup {p[1]}
    /\ root' = TRUE
    /\ origin' = "other"

\* a subdirectory is removed with its files
EnvRmdir ==
    /\ Tamper
    /\ \E d \in dirs :
          /\ dirs' = dirs \ {d}
          /\ files' = Without(files, {p \in DOMAIN files : p[1] = d})
    /\ origin' = "other"
    /\ UNCHANGED root

\* the root is removed with everything under it: the session goes on with
\* an empty root
EnvWipe ==
    /\ pc = "idle" /\ root
    /\ root' = FALSE /\ dirs' = {} /\ files' = <<>>
    /\ origin' = "other"
    /\ Gone
    /\ UNCHANGED <<fsp, pc, run, tampers, shorts, ref>>

Env == EnvRemove \/ EnvTruncate \/ EnvExtend \/ EnvCreate \/ EnvRmdir
          \/ EnvWipe

Program == StartRun \/ DryRun \/ MkRoot \/ LoopTest \/ MkSubdir \/ Open
              \/ Fstat \/ Write \/ Close

Next == Program \/ Env

Spec == Init /\ [][Next]_vars

\* ------------------------------------------------- runs without failures
\* The steps of the program in which no call fails and every write call
\* returns at least 1.  A process that can take a step takes it (and a
\* session has all its runs); other programs work on the tree between the
\* runs as they do in Spec.
Calm == Program /\ failedat' = "none"

CalmNext == Calm \/ Env

CalmSpec == Init /\ [][CalmNext]_vars /\ WF_vars(Calm)

\* -------------------------------------------------------- the plan alone
\* The sizes the loop of fspopulate plans do not depend on what the calls
\* find or return: PlanSpec runs the loop (lines 166-205) with its calls left
\* out, one file a step, for the configurations of Spec and for the ones
\* main builds, among them SIZE = 1t counted in MiB.
PlanConfigs ==
    {c \in Configs : ~c.dryrun}
        \cup {MainConfig(t, 1) : t \in {0, 5, 2048, 40 * MiB}}
        \cup {MainConfig(1024 * 1024, MiB)}

InitPlan == fsp \in PlanConfigs /\ pc = "plan" /\ Blank

\* one round of the loop: lines 166, 182, 195-197, 204-205
PlanStep ==
    /\ pc = "plan" /\ MoreToWrite(fsp, totwritten)
    /\ di' = NextDir(fsp, di)
    /\ expectedsz' = ExpectedSz(fsp, bi, totwritten)
    /\ plan' = Record(plan, expectedsz')
    /\ totwritten' = Advance(totwritten, expectedsz')
    /\ bi' = bi + 1
    /\ UNCHANGED <<fsp, fsys, pc, fd, err, nbytes, nwritten, errno, rv,
                   exited, run, tampers, shorts, origin, basis, start,
                   wcalls, fin, ncalls, failedat, trace, ref>>

\* the loop ends: lines 166 and 214
PlanDone ==
    /\ pc = "plan" /\ ~MoreToWrite(fsp, totwritten)
    /\ pc' = "planned"
    /\ UNCHANGED <<fsp, fsys, locals, rv, exited, run, tampers, shorts,
                   origin, basis, start, plan, wcalls, fin, ncalls, failedat,
                   trace, ref>>

PlanNext == PlanStep \/ PlanDone

PlanSpec == InitPlan /\ [][PlanNext]_vars

\* ------------------------------------------------------------ properties
\* a run ended, and nothing happened since
Ended == pc = "idle" /\ exited # "none"

\* a run that was no dry run ended with exit code 0
Populated == pc = "idle" /\ exited = "EXIT_SUCCESS" /\ ~fsp.dryrun

\* the size a path had when the current run started, 0 when it was absent
StartSize(p) == IF p \in DOMAIN start.files THEN Size(start.files[p]) ELSE 0

\* the current run issued no write call
NoWrites == \A i \in 1 .. Len(wcalls) : wcalls[i] = 0

\* C1 (idempotence): in a run that starts on the tree a run with the same
\* configuration completed successfully on, every shortfall is <= 0, no
\* write call is issued, and the directories, the files and their contents
\* stay what they were when the run started.
C1_Idempotence ==
    basis \in {"exact", "success"} =>
        /\ Tree = start
        /\ NoWrites
        /\ pc = "write" => nbytes <= 0

\* a second run processed two files of a tree that holds data, and succeeded
C1_Witness ==
    /\ basis \in {"exact", "success"} /\ Populated
    /\ Len(fin) >= 2 /\ TotalSize(files) > 0

\* C2 (sum invariant): after a successful run on a root that was empty, the
\* sizes of all files under the root sum to the configured total size.
C2_SumInvariant ==
    (Populated /\ start = EmptyTree) => TotalSize(files) = fsp.totsize

\* a run made three files out of nothing, one of them in two write calls
C2_Witness ==
    /\ Populated /\ start = EmptyTree
    /\ Len(fin) >= 3 /\ fsp.totsize > 0
    /\ \E i \in 1 .. Len(wcalls) : wcalls[i] >= 2

\* the indices of the files the current run planned
PlannedFiles == 0 .. (Count(plan) - 1)

\* file i exists and has size n
HasSize(i, n) ==
    /\ PathOf(fsp, i) \in DOMAIN files
    /\ Size(files[PathOf(fsp, i)]) = n

Max(a, b) == IF a < b THEN b ELSE a

\* C3 as claimed: after a successful run every planned file has exactly its
\* expected size, whatever the sizes of the files were before the run.
C3_AsClaimed ==
    Populated => \A i \in PlannedFiles : HasSize(i, At(plan, i))

\* C3 as amended: after a successful run every planned file exists, and its
\* size is the larger of its expected size and the size it had when the run
\* started (0 when it was absent).
C3_ExpectedOrLarger ==
    Populated =>
        \A i \in PlannedFiles :
            HasSize(i, Max(At(plan, i), StartSize(PathOf(fsp, i))))

\* a successful run found one file larger than expected and filled another
C3_Witness ==
    /\ Populated
    /\ \E i \in PlannedFiles : StartSize(PathOf(fsp, i)) > At(plan, i)
    /\ \E i \in PlannedFiles : StartSize(PathOf(fsp, i)) < At(plan, i)

\* the content a path had when the current run started
StartContent(p) == IF p \in DOMAIN start.files THEN start.files[p] ELSE <<>>

\* C4 (resumability): in a run on a completed tree from which files were
\* removed or truncated, every file processed has its expected size again,
\* what it held at the start is a prefix of what it holds (so exactly the
\* missing bytes were appended), a file that had its expected size got no
\* write call and a shorter or missing one got some.
C4_Resumability ==
    basis = "damaged" =>
        \A i \in 1 .. Len(fin) :
            LET p == PathOf(fsp, i - 1)
                e == At(plan, i - 1)
            IN  /\ HasSize(i - 1, e)
                /\ IsPrefix(StartContent(p), files[p])
                /\ StartSize(p) = e => wcalls[i] = 0
                /\ StartSize(p) < e => wcalls[i] >= 1

\* a run restored a short or missing file and left a non-empty one alone
C4_Witness ==
    /\ basis = "damaged" /\ Populated
    /\ \E i \in PlannedFiles : StartSize(PathOf(fsp, i)) < At(plan, i)
    /\ \E i \in PlannedFiles : At(plan, i) > 0 /\ wcalls[i + 1] = 0

\* a step of the program (the steps of other programs start and end idle)
ProgramStep == ~(pc = "idle" /\ pc' = "idle")

\* C5 (no data is removed): a step of the program removes no directory and
\* no file, and what a file held stays a prefix of what it holds; a file
\* larger than expected gets no write, and its processing ends without error.
C5_NeverRemoves ==
    [][ProgramStep =>
          /\ root => root'
          /\ dirs \subseteq dirs'
          /\ \A p \in DOMAIN files :
                p \in DOMAIN files' /\ IsPrefix(files[p], files'[p])
          /\ (pc = "write" /\ nbytes < 0) =>
                (files' = files /\ pc' = "close" /\ err' = 0)
          /\ (pc = "close" /\ nbytes < 0) => pc' = "loop"]_vars

\* a run succeeded on a tree with a file larger than expected, and kept it
C5_Witness ==
    /\ Populated
    /\ \E i \in PlannedFiles :
          /\ StartSize(PathOf(fsp, i)) > At(plan, i)
          /\ HasSize(i, StartSize(PathOf(fsp, i)))
          /\ wcalls[i + 1] = 0

\* C6 as claimed (determinism): two successful runs with the same
\* configuration, each on an empty root, leave the same directories, the
\* same files and the same content in every file, whatever the write calls
\* returned.  (ref is the tree the first such run of the session left.)
C6_Determinism ==
    (pc = "idle" /\ origin \in {"exact", "success"} /\ start = EmptyTree
        /\ ref # <<>>)
    => Tree = ref[1]

\* C7 (plan sizes): the file planned last has the expected size
\* min(nominal size, total - sum of the expected sizes before it), where the
\* nominal size is the bulk size for an index below nbulk and 10 MiB
\* otherwise; a file smaller than its nominal size is the last one; and the
\* plan main builds for 1 TiB is 768 files of 1 GiB, 26214 files of 10 MiB
\* and one file of 4 MiB.
C7_PlanSizes ==
    /\ Count(plan) = bi
    /\ bi > 0 =>
        LET before == Sum(plan) - expectedsz
            nominal == IF bi - 1 < fsp.nbulk THEN fsp.bulksize
                       ELSE (10 * 1024 * 1024) \div fsp.unit
        IN  /\ At(plan, bi - 1) = expectedsz
            /\ expectedsz = MIN(nominal, fsp.totsize - before)
            /\ expectedsz < nominal => Sum(plan) = fsp.totsize
    /\ (pc = "planned" /\ fsp = MainConfig(1024 * 1024, MiB)) =>
        /\ plan = << <<1024, 768>>, <<10, 26214>>, <<4, 1>> >>
        /\ bi = 26983

\* the plan for 1 TiB is complete
C7_Witness ==
    /\ pc = "planned" /\ fsp = MainConfig(1024 * 1024, MiB)
    /\ Sum(plan) = 1024 * 1024

\* a run is going on or ended, and nothing happened since
InRun == pc # "idle" \/ exited # "none"

\* C8 (total size 0): a run with total size 0 calls mkdirp for the root and
\* nothing else: no file is opened or created, no subdirectory is created,
\* no write is issued, and unless that mkdirp fails the root exists and the
\* exit code is 0.
C8_ZeroTotal ==
    (fsp.totsize = 0 /\ ~fsp.dryrun /\ InRun) =>
        /\ files = start.files /\ dirs = start.dirs
        /\ wcalls = <<>> /\ ncalls <= 1
        /\ pc \in {"entry", "loop", "idle"}
        /\ (pc = "idle" /\ failedat = "none") =>
              (root /\ exited = "EXIT_SUCCESS")

\* a run with total size 0 made the root and succeeded
C8_Witness ==
    /\ fsp.totsize = 0 /\ ~fsp.dryrun
    /\ pc = "idle" /\ exited = "EXIT_SUCCESS" /\ root /\ ~start.root

\* every file processed by the current run exists with the size it had when
\* its processing ended: its expected size, unless it was larger at the start
ProcessedKept ==
    \A i \in 1 .. Len(fin) :
        /\ HasSize(i - 1, fin[i])
        /\ StartSize(PathOf(fsp, i - 1)) <= At(plan, i - 1)
              => fin[i] = At(plan, i - 1)

\* C9 (write error): after a write call returned -1 the files processed
\* before are as their processing left them, and the next step of the run
\* is its end with exit code 1: no mkdirp, open, fstat or write call is
\* made and the tree is not changed.
C9_WriteError ==
    [][/\ failedat' = "write" => ProcessedKept'
       /\ (failedat = "write" /\ pc # "idle") =>
             /\ pc' = "idle" /\ rv' = "-1" /\ exited' = "EXIT_FAILURE"
             /\ ncalls' = ncalls
             /\ UNCHANGED fsys]_vars

\* a run failed on a write call after it had filled a file
C9_Witness ==
    /\ failedat = "write" /\ pc = "idle" /\ exited = "EXIT_FAILURE"
    /\ Len(fin) >= 1 /\ fin[1] > 0 /\ fin[1] > StartSize(PathOf(fsp, 0))

\* C10 as claimed: every failure of the taxonomy, a zero-byte write result
\* among them, makes fspopulate return failure (exit code 1), and a run
\* without failure ends with exit code 0.
C10_AsClaimed ==
    Ended =>
        /\ failedat # "none" => (rv = "-1" /\ exited = "EXIT_FAILURE")
        /\ failedat = "none" => (rv = "0" /\ exited = "EXIT_SUCCESS")

\* C10 as amended: a failure of mkdirp other than EEXIST, of open, of fstat
\* or of write (-1) makes fspopulate return -1 (exit code 1) with nothing
\* done after it but the close of the open file; a zero-byte write result
\* fails the assertion of line 232, the process is killed and fspopulate
\* does not return; EEXIST is no failure; a run without failure returns 0
\* (exit code 0).
C10_Failures ==
    /\ failedat # "none" => pc \in {"close", "idle"}
    /\ failedat = "mkdirp" => errno # "EEXIST"
    /\ Ended =>
        /\ failedat \in {"mkdirp", "open", "fstat", "write"}
              => (rv = "-1" /\ exited = "EXIT_FAILURE")
        /\ failedat = "assert" => (rv = "none" /\ exited = "SIGABRT")
        /\ failedat = "none" => (rv = "0" /\ exited = "EXIT_SUCCESS")

\* a run found its directories (EEXIST) and was killed on a zero-byte write
C10_Witness ==
    /\ Ended /\ failedat = "assert" /\ errno = "EEXIST"

\* the expected sizes of the files of an uninterrupted run with configuration
\* c, from file b on when tw units are planned already
RECURSIVE PlanFrom(_, _, _)
PlanFrom(c, b, tw) ==
    IF tw >= c.totsize THEN <<>>
    ELSE LET nominal == IF b < c.nbulk THEN c.bulksize
                        ELSE (10 * 1024 * 1024) \div c.unit
             e == IF nominal < c.totsize - tw THEN nominal
                  ELSE c.totsize - tw
         IN  <<e>> \o PlanFrom(c, b + 1, tw + e)

WholePlan == PlanFrom(fsp, 0, 0)

\* the paths and the directories of an uninterrupted run of n files
WholePaths(n) == {<<i % fsp.nsubdirs, i>> : i \in 0 .. (n - 1)}
WholeDirs(n) == {i % fsp.nsubdirs : i \in 0 .. (n - 1)}

\* C11 (recovery by re-invocation): as long as only runs of the program
\* worked on a root that was empty, aborted ones among them, the tree holds
\* only directories and files of the plan and no file is larger than planned;
\* a run on such a tree in which no call fails ends with exit code 0 and
\* leaves the directories, the file paths and the file sizes of a single
\* uninterrupted run.
C11_Recovery ==
    (tampers = 0 /\ ~fsp.dryrun) =>
        LET whole == WholePlan
            n == Len(whole)
        IN  /\ dirs \subseteq WholeDirs(n)
            /\ DOMAIN files \subseteq WholePaths(n)
            /\ \A p \in DOMAIN files : Size(files[p]) <= whole[p[2] + 1]
            /\ (Ended /\ failedat = "none") =>
                  /\ exited = "EXIT_SUCCESS"
                  /\ root /\ dirs = WholeDirs(n)
                  /\ DOMAIN files = WholePaths(n)
                  /\ \A p \in WholePaths(n) : Size(files[p]) = whole[p[2] + 1]

\* a run completed a tree in which an aborted run had left a file with a
\* part of its bytes
C11_Witness ==
    /\ tampers = 0 /\ Populated /\ run >= 2 /\ Count(plan) >= 2
    /\ \E p \in DOMAIN start.files :
          /\ 0 < Size(start.files[p])
          /\ Size(start.files[p]) < Size(files[p])

\* the calls of one kind ("mkdirp" or "open") of the current run, in order,
\* each with the file counter and the directory index of its path
Calls(kind) == SelectSeq(trace, LAMBDA t : t[1] = kind)

\* the number of files in directory d
FilesIn(d) == Cardinality({p \in DOMAIN files : p[1] = d})

\* C12 (round-robin placement): the k-th open of a run is for file index
\* k - 1 and names dir<(k-1) mod nsubdirs>/file<k-1>, the open file is the
\* one at that path, and in a run on an empty root the files are at those
\* paths, the file counts of two directories never differ by more than 1 and
\* a directory holds a second file only when every directory holds one.
C12_RoundRobin ==
    LET opens == Calls("open")
        N == fsp.nsubdirs
    IN  /\ \A k \in 1 .. Len(opens) :
              opens[k][2] = k - 1 /\ opens[k][3] = (k - 1) % N
        /\ fd # NoFd => fd = <<bi % N, bi>> /\ opens[Len(opens)][2] = bi
        /\ (InRun /\ start = EmptyTree) =>
              /\ DOMAIN files \subseteq
                    {<<opens[k][3], opens[k][2]>> : k \in 1 .. Len(opens)}
              /\ \A d, e \in 0 .. (N - 1) : FilesIn(d) - FilesIn(e) <= 1
              /\ \A d, e \in 0 .. (N - 1) : FilesIn(d) >= 2 => FilesIn(e) >= 1

\* a run on an empty root placed three files in two directories
C12_Witness ==
    /\ InRun /\ start = EmptyTree /\ fsp.nsubdirs = 2
    /\ Len(Calls("open")) = 3 /\ FilesIn(0) = 2 /\ FilesIn(1) = 1

\* C13 (directory-creation attempts): in a run, mkdirp of a subdirectory is
\* called in exactly the rounds of the loop with bi < nsubdirs, for the
\* directory index di = bi, at most once for an index: the open of a file
\* with bi < nsubdirs directly follows the mkdirp of that round, the open of
\* a file with bi >= nsubdirs follows no mkdirp; and a successful run on a
\* root without subdirectories leaves min(number of files, nsubdirs) of them.
C13_MkdirAttempts ==
    LET mks == Calls("mkdirp")
        N == fsp.nsubdirs
    IN  /\ \A k \in 1 .. Len(mks) :
              mks[k][2] < N /\ mks[k][3] = mks[k][2] /\ mks[k][2] = k - 1
        /\ \A k \in 1 .. Len(trace) :
              trace[k][1] = "open" =>
                 IF trace[k][2] < N
                 THEN k > 1 /\ trace[k - 1] = <<"mkdirp", trace[k][2], trace[k][3]>>
                 ELSE trace[k - 1][1] = "open"
        /\ pc = "open" => (bi < N <=> trace[Len(trace)] = <<"mkdirp", bi, di>>)
        /\ (Populated /\ start.dirs = {}) =>
              /\ Len(mks) = MIN(Count(plan), N)
              /\ Cardinality(dirs) = MIN(Count(plan), N)

\* a run placed a third file in one of its two directories without a mkdirp
C13_Witness ==
    /\ Populated /\ fsp.nsubdirs = 2 /\ start.dirs = {}
    /\ Len(Calls("open")) = 3 /\ Len(Calls("mkdirp")) = 2

\* C14 (directory before file): whenever a run is about to open a file, the
\* root and the subdirectory of its path exist: the subdirectory was there
\* when the run started or a mkdirp of this run made it.
C14_DirBeforeFile ==
    pc = "open" =>
        /\ root /\ di \in dirs
        /\ \/ di \in start.dirs
           \/ \E k \in 1 .. Len(trace) : trace[k][1] = "mkdirp" /\ trace[k][3] = di

\* on a tree from which a subdirectory was removed, a run with fewer bulk
\* files than directories is about to open a file in the directory it has
\* made again, in a round without mkdirp
C14_Witness ==
    /\ pc = "open" /\ bi >= fsp.nsubdirs /\ fsp.nbulk < fsp.nsubdirs
    /\ tampers = 1 /\ start.root /\ di \notin start.dirs /\ start.dirs # {}

\* C15 (exact shortfall append): in populate_file with shortfall n = nbytes,
\* for n <= 0 no write is issued and the result is 0; for n > 0 a write call
\* makes the file grow by what is added to nwritten, which is at least 1 and
\* at most min(n - nwritten, 10 MiB), nwritten never exceeds n, the file is
\* always nwritten bytes longer than fstat found it, and the result is 0
\* exactly when nwritten = n, when the file has grown by exactly n bytes.
C15_ExactAppend ==
    [][pc = "write" =>
          LET n == nbytes
              grown == Size(files'[fd]) - Size(files[fd])
              room == n - nwritten
              buflen == (10 * 1024 * 1024) \div fsp.unit
          IN  /\ n <= 0 =>
                    /\ pc' = "close" /\ err' = 0
                    /\ files' = files /\ ncalls' = ncalls /\ wcalls' = wcalls
              /\ n > 0 =>
                    /\ Size(files[fd]) = (expectedsz - n) + nwritten
                    /\ grown = nwritten' - nwritten
                    /\ grown <= (IF room < buflen THEN room ELSE buflen)
                    /\ (pc' = "write" /\ ncalls' # ncalls) => grown >= 1
                    /\ nwritten <= n /\ nwritten' <= n
                    /\ (pc' = "close" /\ err' = 0) =>
                          (nwritten = n /\ ncalls' = ncalls
                             /\ Size(files[fd]) = expectedsz)
                    /\ (pc' = "close" /\ err' # 0) => nwritten < n]_vars

\* populate_file appended more than a buffer length in three write calls, one
\* of them short, and returned 0
C15_Witness ==
    /\ pc = "close" /\ err = 0 /\ nbytes > 10 * 1024 * 1024
    /\ nwritten = nbytes /\ wcalls[Len(wcalls)] = 3 /\ shorts = 1

\* the sum of the first k sizes of a sequence of sizes
RECURSIVE SumFirst(_, _)
SumFirst(sq, k) == IF k = 0 THEN 0 ELSE sq[k] + SumFirst(sq, k - 1)

\* C16 (planned running total): when k = bi files are processed, totwritten
\* is the sum of the expected sizes of the files 0 .. k-1 of the plan of an
\* uninterrupted run, whatever the files held and whatever was written; it
\* never exceeds the total size, it is less than the total size inside the
\* loop and equal to it when the loop exits; and the expected sizes a run
\* computes, like the paths it opens, are those of that plan.
C16_RunningTotal ==
    LET whole == WholePlan
        n == Len(whole)
        opens == Calls("open")
        planned == Count(plan)
    IN  /\ Len(fin) = bi /\ bi <= n
        /\ totwritten = SumFirst(whole, bi)
        /\ totwritten <= fsp.totsize
        /\ planned <= n
        /\ \A i \in 1 .. planned : At(plan, i - 1) = whole[i]
        /\ \A k \in 1 .. Len(opens) :
              opens[k][2] < n /\ opens[k][3] = opens[k][2] % fsp.nsubdirs
        /\ pc \in {"mkdir", "open", "fstat", "write", "close"} =>
              totwritten < fsp.totsize
        /\ (Ended /\ rv = "0" /\ ~fsp.dryrun) =>
              (totwritten = fsp.totsize /\ planned = n)

\* a run ended with the total reached though one of its files was larger
\* than planned, and the files hold more than the total
C16_Witness ==
    /\ Populated /\ totwritten = fsp.totsize /\ Count(plan) >= 2
    /\ \E i \in 1 .. Len(fin) : fin[i] > At(plan, i - 1)
    /\ TotalSize(files) > fsp.totsize

\* C17 (file-handle ownership): a descriptor is open only between the open
\* of a file and the end of its processing, and then it is the descriptor of
\* the file with the current index; none is open at the loop test, at a
\* mkdirp, at the next open, or when fspopulate has returned, with 0 or
\* with -1.
C17_HandleOwnership ==
    /\ pc \in {"idle", "entry", "loop", "mkdir", "open"} => fd = NoFd
    /\ pc \in {"fstat", "write", "close"} =>
          (fd = <<bi % fsp.nsubdirs, bi>> /\ fd \in DOMAIN files)
    /\ rv # "none" => fd = NoFd

\* fspopulate returned -1 on a failing fstat after it had processed a file
C17_Witness ==
    /\ Ended /\ rv = "-1" /\ failedat = "fstat" /\ Len(fin) >= 1 /\ fd = NoFd

\* the largest number of files of a run: nbulk + ceil(totsize / 10 MiB)
MostFiles ==
    fsp.nbulk + ((fsp.totsize + ((10 * 1024 * 1024) \div fsp.unit) - 1)
                    \div ((10 * 1024 * 1024) \div fsp.unit))

\* C18 (termination): a run in which no call fails and every write returns
\* at least 1 byte ends with the return of 0 (exit code 0); it processes at
\* most nbulk + ceil(totsize / 10 MiB) files; and every round of the loop
\* increases the running total or is one of the first nbulk rounds.
C18_Termination ==
    /\ (pc = "entry") ~> (pc = "idle" /\ rv = "0" /\ exited = "EXIT_SUCCESS")
    /\ [](bi <= MostFiles /\ Count(plan) <= MostFiles)
    /\ [][(pc = "close" /\ bi' = bi + 1) =>
             (totwritten' > totwritten \/ bi < fsp.nbulk)]_vars

\* a run ended after nbulk + ceil(totsize / 10 MiB) = 3 files, the first of
\* them an empty bulk file, with a short write on its way
C18_Witness ==
    /\ pc = "idle" /\ rv = "0" /\ bi = MostFiles /\ bi = 3
    /\ fin[1] = 0 /\ shorts = 1

\* the offset in the file at which chunk k of content c starts
RECURSIVE Offset(_, _)
Offset(c, k) == IF k = 1 THEN 0 ELSE Offset(c, k - 1) + c[k - 1][2]

\* byte i of content c is fsp_buf[i mod 10 MiB] for every i < Size(c): each
\* chunk holds the first bytes of the buffer, at most all of them, and
\* starts in the file at a multiple of the buffer length
Periodic(c) ==
    \A k \in 1 .. Len(c) :
        /\ c[k][1] = "buf"
        /\ c[k][2] <= 10 * 1024 * 1024
        /\ Offset(c, k) % (10 * 1024 * 1024) = 0

\* C19 (fill content): every byte the program writes comes from fsp_buf,
\* each write call from its offset 0; as long as every write call returned
\* the count requested, a file that was absent or empty when the run started
\* holds fsp_buf[i mod 10 MiB] at every offset i, up to its expected size
\* when its processing has ended.
C19_FillContent ==
    (shorts = 0 /\ InRun) =>
        \A p \in DOMAIN files :
            StartSize(p) = 0 =>
                /\ Periodic(files[p])
                /\ (p[2] < Len(fin) /\ p = PathOf(fsp, p[2])) =>
                      Size(files[p]) = At(plan, p[2])

\* a run made a file longer than the buffer out of nothing
C19_Witness ==
    /\ shorts = 0 /\ Populated
    /\ \E p \in DOMAIN files :
          /\ StartSize(p) = 0 /\ Len(files[p]) = 2
          /\ Size(files[p]) > 10 * 1024 * 1024

\* C20 (dry run): with the dry-run flag set, fspopulate returns 0 (exit code
\* 0) as its first step, without a mkdirp, open, fstat or write call: the
\* root, the subdirectories and the files are what they were when the run
\* started.
C20_DryRun ==
    (fsp.dryrun /\ InRun) =>
        /\ pc \in {"entry", "idle"}
        /\ Tree = start
        /\ ncalls = 0 /\ trace = <<>> /\ wcalls = <<>> /\ fd = NoFd
        /\ pc = "idle" => (rv = "0" /\ exited = "EXIT_SUCCESS")

\* a dry run ended, and the root it was given does not exist
C20_Witness ==
    /\ fsp.dryrun /\ fsp.totsize > 0 /\ Ended /\ rv = "0" /\ ~root
====
